---- MODULE Spec2Model ----
(***************************************************************************)
(* State-machine model of the OAuth-Service authentication service:        *)
(* the token service and auth operations of services/auth.service.js, the  *)
(* controllers of controllers/auth.controller.js, the middleware of        *)
(* middlewares/user.middleware.js and the route table of                   *)
(* routes/auth.route.js.                                                   *)
(*                                                                         *)
(* Time is counted in milliseconds (Date.now()); JWT timestamps are in     *)
(* seconds (Math.floor(Date.now() / 1000)), as jsonwebtoken computes them. *)
(***************************************************************************)
EXTENDS Integers, Sequences, FiniteSets, TLC

VARIABLES
    users,       \* the user collection (UserModel): a set of user documents
    tokens,      \* the token collection (TokenModel), in insertion order
    nextId,      \* the next fresh document id the user collection hands out
    now,         \* the wall clock, Date.now(), in milliseconds
    clockSteps,  \* how many times the clock has advanced
    issued,      \* every token pair the service has returned, with the
                 \* function that returned it
    served,      \* how many requests and calls have been taken
    resp,        \* the response in flight: the outcome of the last request
    createFails, \* whether the database rejects TokenModel.create
    inflight     \* the refreshToken calls in progress, one per slot

vars == <<users, tokens, nextId, now, clockSteps, issued, served, resp,
          createFails, inflight>>

----------------------------------------------------------------------------
(* Bounds of the model *)

MaxUsers == 2
MaxTokens == 3
MaxClockSteps == 2
MaxRequests == 3
MaxNow == 1209600000

(* Constants of the program *)

AccessExpiresIn == 7200
RefreshExpiresIn == 604800
AccessExpiresMs == 7200000
RefreshExpiresMs == 604800000
SaltRounds == 10

ACCESS_TOKEN_SECRET == "ACCESS_TOKEN_SECRET"
REFRESH_TOKEN_SECRET == "REFRESH_TOKEN_SECRET"

(* Inputs *)

Emails == {"a@b.com", "c@d.com"}
Passwords == {"pw123", "pw456"}
Roles == {"admin", "member"}
NamePairs == {<<"Ann", "Lee">>}
ClockDeltas == {500, AccessExpiresMs, RefreshExpiresMs}

Undefined == "undefined"

----------------------------------------------------------------------------
(* bcrypt *)

\* bcrypt.hash(password, rounds): a digest that is not the password and
\* that bcrypt.compare matches against the password it was made from.
bcryptHash(password, rounds) ==
    [alg |-> "bcrypt", rounds |-> rounds, digestOf |-> password]

bcryptCompare(password, hash) ==
    hash.alg = "bcrypt" /\ hash.digestOf = password

----------------------------------------------------------------------------
(* jsonwebtoken *)

Seconds(ms) == ms \div 1000

\* jwt.sign({id: id}, secret, {expiresIn: expiresIn}): the payload gets
\* iat = now in seconds and exp = iat + expiresIn; the HMAC signature is a
\* function of payload and secret, so equal inputs give equal tokens.
jwtSign(id, secret, expiresIn) ==
    [signedWith |-> secret, id |-> id,
     iat |-> Seconds(now), exp |-> Seconds(now) + expiresIn]

NoClaims == [id |-> 0, iat |-> 0, exp |-> 0]

\* jwt.verify(token, secret): throws on a missing or malformed token, on a signature
\* made with another secret and once the clock has reached exp; returns the
\* decoded payload otherwise.
jwtVerify(token, secret) ==
    IF token.signedWith = Undefined THEN
        [ok |-> FALSE, error |-> "jwt must be provided", decoded |-> NoClaims]
    ELSE IF token.signedWith = "" THEN
        [ok |-> FALSE, error |-> "jwt malformed", decoded |-> NoClaims]
    ELSE IF token.signedWith # secret THEN
        [ok |-> FALSE, error |-> "invalid signature", decoded |-> NoClaims]
    ELSE IF Seconds(now) >= token.exp THEN
        [ok |-> FALSE, error |-> "jwt expired", decoded |-> NoClaims]
    ELSE
        [ok |-> TRUE, error |-> "",
         decoded |-> [id |-> token.id, iat |-> token.iat, exp |-> token.exp]]

\* What a caller can present besides the tokens it was given: a string that
\* is no JWT, and a JWT signed with a key of its own that never expires
\* within the model.
MalformedToken == [signedWith |-> "", id |-> 0, iat |-> 0, exp |-> 0]
ForgedToken ==
    [signedWith |-> "attacker", id |-> 1, iat |-> 0, exp |-> 4 * RefreshExpiresIn]

\* An absent header or body field.
Absent == [signedWith |-> Undefined, id |-> 0, iat |-> 0, exp |-> 0]

----------------------------------------------------------------------------
(* The collections *)

Null == [id |-> 0, email |-> "", password |-> bcryptHash("", 0), role |-> "",
         firstname |-> "", lastname |-> ""]

\* UserModel.findById(id)
FindById(id) ==
    IF \E u \in users : u.id = id
    THEN CHOOSE u \in users : u.id = id
    ELSE Null

\* UserModel.findOne({email: email})
FindByEmail(email) ==
    IF \E u \in users : u.email = email
    THEN CHOOSE u \in users : u.email = email
    ELSE Null

\* The unique index on email of the user schema.
EmailTaken(email, exceptId) ==
    \E u \in users : u.email = email /\ u.id # exceptId

\* The user field of a token document: the user document as it was when the
\* token document was created.
EmbeddedUser(user) == user

NoTokenData ==
    [accessToken |-> Absent, accessTokenExpiresAt |-> 0,
     refreshToken |-> Absent, refreshTokenExpiresAt |-> 0, user |-> Null]

\* TokenModel.findOne({accessToken: token}): the first matching document.
FindOneByAccessToken(token) ==
    LET hits == SelectSeq(tokens, LAMBDA d : d.accessToken = token)
    IN  IF Len(hits) = 0 THEN NoTokenData ELSE Head(hits)

\* TokenModel.deleteMany({refreshToken: refreshToken}) as the service calls
\* it: the call builds a Query and returns it; a Query runs only when it is
\* awaited, then()-ed, exec()-ed or given a callback, and the service does
\* none of these, so the collection is what it was.
deleteManyUnexecuted(refreshToken) == tokens

----------------------------------------------------------------------------
(* services/auth.service.js.  Every function yields its outcome: whether   *)
(* it returned or threw, the value or the error message, and the two       *)
(* collections as it leaves them.                                          *)

Return(body, U, T) ==
    [ok |-> TRUE, error |-> "", body |-> body, users |-> U, tokens |-> T]

Throw(message, U, T) ==
    [ok |-> FALSE, error |-> message, body |-> Undefined, users |-> U, tokens |-> T]

TypeErrorMessage == "Cannot read properties of null"

\* The message of the error TokenModel.create rejects with.
CreateErrorMessage == "TokenModel.create failed"

\* generateCredentials that adds the refresh period in seconds to a clock in
\* milliseconds.
generateCredentials_secondsForMs(user, U, T) ==
    IF user = Null THEN Throw(TypeErrorMessage, U, T)
    ELSE IF createFails THEN Throw(CreateErrorMessage, U, T)
    ELSE
    LET token == jwtSign(user.id, ACCESS_TOKEN_SECRET, AccessExpiresIn)
        refresh == jwtSign(user.id, REFRESH_TOKEN_SECRET, RefreshExpiresIn)
        tokenData ==
            [accessToken |-> token,
             accessTokenExpiresAt |-> now + AccessExpiresMs,
             refreshToken |-> refresh,
             refreshTokenExpiresAt |-> now + RefreshExpiresIn,
             user |-> EmbeddedUser(user)]
    IN  Return([accessToken |-> token, refreshToken |-> refresh,
                user |-> [id |-> user.id, email |-> user.email, name |-> Undefined]],
               U, Append(T, tokenData))

generateCredentials(user, U, T) ==
    IF user = Null THEN Throw(TypeErrorMessage, U, T)
    ELSE IF createFails THEN Throw(CreateErrorMessage, U, T)
    ELSE
    LET token == jwtSign(user.id, ACCESS_TOKEN_SECRET, AccessExpiresIn)
        refresh == jwtSign(user.id, REFRESH_TOKEN_SECRET, RefreshExpiresIn)
        tokenData ==
            [accessToken |-> token,
             accessTokenExpiresAt |-> now + AccessExpiresMs,
             refreshToken |-> refresh,
             refreshTokenExpiresAt |-> now + RefreshExpiresMs,
             user |-> EmbeddedUser(user)]
    IN  Return([accessToken |-> token, refreshToken |-> refresh,
                user |-> [id |-> user.id, email |-> user.email, name |-> Undefined]],
               U, Append(T, tokenData))

refreshToken(refreshTokenArg) ==
    LET token == jwtVerify(refreshTokenArg, REFRESH_TOKEN_SECRET)
    IN  IF ~token.ok THEN Throw(token.error, users, tokens)
        ELSE LET T == deleteManyUnexecuted(refreshTokenArg)
                 user == FindById(token.decoded.id)
             IN  generateCredentials(user, users, T)

\* login that issues the credentials before it compares the password.
login_issuesBeforeCompare(email, password) ==
    LET user == FindByEmail(email)
    IN  IF user = Null THEN Throw("User not found", users, tokens)
        ELSE IF ~bcryptCompare(password, user.password)
             THEN Throw("Invalid password", users,
                        generateCredentials(user, users, tokens).tokens)
             ELSE generateCredentials(user, users, tokens)

login(email, password) ==
    LET user == FindByEmail(email)
    IN  IF user = Null THEN Throw("User not found", users, tokens)
        ELSE IF ~bcryptCompare(password, user.password)
             THEN Throw("Invalid password", users, tokens)
             ELSE generateCredentials(user, users, tokens)

logout(refreshTokenArg) ==
    Return(Undefined, users, deleteManyUnexecuted(refreshTokenArg))

register(email, password, role, firstname, lastname) ==
    IF EmailTaken(email, 0) THEN Throw("E11000 duplicate key", users, tokens)
    ELSE
    LET user == [id |-> nextId, email |-> email,
                 password |-> bcryptHash(password, SaltRounds),
                 role |-> role, firstname |-> firstname, lastname |-> lastname]
    IN  generateCredentials(user, users \cup {user}, tokens)

\* verifyToken with the secret of the other token kind.
verifyToken_wrongSecret(token) ==
    LET v == jwtVerify(token, REFRESH_TOKEN_SECRET)
    IN  IF v.ok THEN Return(v.decoded, users, tokens)
        ELSE Throw(v.error, users, tokens)

verifyToken(token) ==
    LET v == jwtVerify(token, ACCESS_TOKEN_SECRET)
    IN  IF v.ok THEN Return(v.decoded, users, tokens)
        ELSE Throw(v.error, users, tokens)

verifyRefreshToken(token) ==
    LET v == jwtVerify(token, REFRESH_TOKEN_SECRET)
    IN  IF v.ok THEN Return(v.decoded, users, tokens)
        ELSE Throw(v.error, users, tokens)

\* verifyUser that also insists on the token passing verification.
verifyUser_alsoVerifies(token) ==
    LET tokenData == FindOneByAccessToken(token)
    IN  IF tokenData = NoTokenData \/ ~jwtVerify(token, ACCESS_TOKEN_SECRET).ok
        THEN Throw("Invalid token", users, tokens)
        ELSE Return(tokenData.user, users, tokens)

verifyUser(token) ==
    LET tokenData == FindOneByAccessToken(token)
    IN  IF tokenData = NoTokenData THEN Throw("Invalid token", users, tokens)
        ELSE Return(tokenData.user, users, tokens)

\* validateRole that compares the role of the user document as it is now.
validateRole_liveRole(token, role) ==
    LET tokenData == FindOneByAccessToken(token)
    IN  IF tokenData = NoTokenData THEN Throw("Invalid token", users, tokens)
        ELSE IF FindById(tokenData.user.id).role # role
             THEN Throw("Invalid role", users, tokens)
             ELSE Return(tokenData.user, users, tokens)

validateRole(token, role) ==
    LET tokenData == FindOneByAccessToken(token)
    IN  IF tokenData = NoTokenData THEN Throw("Invalid token", users, tokens)
        ELSE IF tokenData.user.role # role
             THEN Throw("Invalid role", users, tokens)
             ELSE Return(tokenData.user, users, tokens)

\* updatePassword that never saves the user document.
updatePassword_notSaved(token, password) ==
    LET tokenData == FindOneByAccessToken(token)
    IN  IF tokenData = NoTokenData THEN Throw("Invalid token", users, tokens)
        ELSE LET user == FindById(tokenData.user.id)
             IN  IF user = Null THEN Throw(TypeErrorMessage, users, tokens)
                 ELSE Return(TRUE, users, tokens)

\* updatePassword that also drops the token documents of the user.
updatePassword_revokesSessions(token, password) ==
    LET tokenData == FindOneByAccessToken(token)
    IN  IF tokenData = NoTokenData THEN Throw("Invalid token", users, tokens)
        ELSE LET user == FindById(tokenData.user.id)
             IN  IF user = Null THEN Throw(TypeErrorMessage, users, tokens)
                 ELSE Return(TRUE,
                        (users \ {user}) \cup
                          {[user EXCEPT !.password = bcryptHash(password, SaltRounds)]},
                        SelectSeq(tokens, LAMBDA d : d.user.id # user.id))

updatePassword(token, password) ==
    LET tokenData == FindOneByAccessToken(token)
    IN  IF tokenData = NoTokenData THEN Throw("Invalid token", users, tokens)
        ELSE LET user == FindById(tokenData.user.id)
             IN  IF user = Null THEN Throw(TypeErrorMessage, users, tokens)
                 ELSE Return(TRUE,
                        (users \ {user}) \cup
                          {[user EXCEPT !.password = bcryptHash(password, SaltRounds)]},
                        tokens)

updateUser(token, patch) ==
    LET tokenData == FindOneByAccessToken(token)
    IN  IF tokenData = NoTokenData THEN Throw("Invalid token", users, tokens)
        ELSE LET userInstance == FindById(tokenData.user.id)
             IN  IF userInstance = Null THEN Throw(TypeErrorMessage, users, tokens)
                 ELSE IF EmailTaken(patch.email, userInstance.id)
                 THEN Throw("E11000 duplicate key", users, tokens)
                 ELSE Return(TRUE,
                        (users \ {userInstance}) \cup
                          {[userInstance EXCEPT !.email = patch.email,
                                                !.role = patch.role,
                                                !.firstname = patch.firstname,
                                                !.lastname = patch.lastname]},
                        tokens)

deleteUser(token) ==
    LET tokenData == FindOneByAccessToken(token)
    IN  IF tokenData = NoTokenData THEN Throw("Invalid token", users, tokens)
        ELSE Return(TRUE, {u \in users : u.id # tokenData.user.id}, tokens)

----------------------------------------------------------------------------
(* middlewares/user.middleware.js *)

\* obj[name] of JavaScript: undefined when the object has no such property.
Prop(obj, name) == IF name \in DOMAIN obj THEN obj[name] ELSE Undefined

NoHeaders == [xAccessToken |-> Absent, authorization |-> Absent]

\* req.headers['x-access-token'] || req.headers['authorization']
HeaderToken(headers) ==
    IF headers.xAccessToken # Absent THEN headers.xAccessToken
    ELSE headers.authorization

\* isAuthenticated that lets a request through when verification fails.
isAuthenticated_passesInvalid(headers) ==
    LET token == HeaderToken(headers)
    IN  IF token = Absent THEN
            [next |-> FALSE, status |-> 401,
             send |-> "Access Denied: No Token Provided!", user |-> NoClaims]
        ELSE LET v == jwtVerify(token, ACCESS_TOKEN_SECRET)
             IN  [next |-> TRUE, status |-> 0, send |-> "", user |-> v.decoded]

isAuthenticated(headers) ==
    LET token == HeaderToken(headers)
    IN  IF token = Absent THEN
            [next |-> FALSE, status |-> 401,
             send |-> "Access Denied: No Token Provided!", user |-> NoClaims]
        ELSE LET v == jwtVerify(token, ACCESS_TOKEN_SECRET)
             IN  IF v.ok
                 THEN [next |-> TRUE, status |-> 0, send |-> "", user |-> v.decoded]
                 ELSE [next |-> FALSE, status |-> 400,
                       send |-> "Invalid Token", user |-> NoClaims]

hasRole(role, reqUser) ==
    IF Prop(reqUser, "role") # role
    THEN [next |-> FALSE, status |-> 403,
          send |-> "Access Denied: You dont have correct role"]
    ELSE [next |-> TRUE, status |-> 0, send |-> ""]

----------------------------------------------------------------------------
(* routes/auth.route.js: the middleware chain in front of each controller *)

Gate ==
    [login |-> "open", logout |-> "open", register |-> "open",
     refreshToken |-> "auth", validateRole |-> "admin",
     updatePassword |-> "auth", verifyToken |-> "auth",
     verifyRefreshToken |-> "auth", verifyUser |-> "auth",
     updateUser |-> "admin", deleteUser |-> "admin"]

Path ==
    [login |-> "/login", logout |-> "/logout", register |-> "/register",
     refreshToken |-> "/refreshtoken", validateRole |-> "/validateRole",
     updatePassword |-> "/updatePassword", verifyToken |-> "/verify/token",
     verifyRefreshToken |-> "/verify/refreshToken", verifyUser |-> "/verify/user",
     updateUser |-> "/updateUser", deleteUser |-> "/deleteUser"]

AuthRoutes == {fn \in DOMAIN Gate : Gate[fn] # "open"}
AdminRoutes == {fn \in DOMAIN Gate : Gate[fn] = "admin"}

----------------------------------------------------------------------------
(* controllers/auth.controller.js: 200 with the JSON body when the service *)
(* function returns, 500 with the error's message when it throws.          *)

NoResp ==
    [layer |-> "none", route |-> "", fn |-> "", headers |-> NoHeaders,
     args |-> <<>>, handled |-> FALSE, ok |-> FALSE, error |-> "",
     body |-> Undefined, status |-> 0, identity |-> NoClaims]

\* What each controller puts in the 200 response.
Json(fn, svc) ==
    CASE fn = "logout" -> [message |-> "User logged out"]
      [] fn = "updatePassword" -> [message |-> "Password updated successfully"]
      [] fn = "updateUser" -> [message |-> "User updated successfully"]
      [] fn = "deleteUser" -> [message |-> "User deleted successfully"]
      [] OTHER -> svc.body

\* Controller that answers a token error with 401.
Controller_unauthorizedOnTokenError(fn, svc) ==
    IF svc.ok
    THEN [status |-> 200, ok |-> TRUE, error |-> "", body |-> Json(fn, svc)]
    ELSE [status |-> IF svc.error = "Invalid token" THEN 401 ELSE 500,
          ok |-> FALSE, error |-> svc.error, body |-> Undefined]

Controller(fn, svc) ==
    IF svc.ok
    THEN [status |-> 200, ok |-> TRUE, error |-> "", body |-> Json(fn, svc)]
    ELSE [status |-> 500, ok |-> FALSE, error |-> svc.error, body |-> Undefined]

\* One request through the route of controller fn: the middleware chain,
\* then the controller and the service function behind it.
Request(fn, headers, args, svc) ==
    LET auth == isAuthenticated(headers)
        role == hasRole("admin", auth.user)
        base == [NoResp EXCEPT !.layer = "http", !.route = Path[fn], !.fn = fn,
                               !.headers = headers, !.args = args]
    IN  IF Gate[fn] # "open" /\ ~auth.next THEN
            [resp |-> [base EXCEPT !.status = auth.status, !.error = auth.send],
             users |-> users, tokens |-> tokens]
        ELSE IF Gate[fn] = "admin" /\ ~role.next THEN
            [resp |-> [base EXCEPT !.status = role.status, !.error = role.send,
                                   !.identity = auth.user],
             users |-> users, tokens |-> tokens]
        ELSE LET c == Controller(fn, svc)
             IN  [resp |-> [base EXCEPT !.handled = TRUE, !.ok = c.ok,
                                        !.error = c.error, !.body = c.body,
                                        !.status = c.status,
                                        !.identity = IF Gate[fn] = "open"
                                                     THEN NoClaims ELSE auth.user],
                  users |-> svc.users, tokens |-> svc.tokens]

\* A direct call of the exported service function fn.
Call(fn, args, svc) ==
    [resp |-> [NoResp EXCEPT !.layer = "service", !.fn = fn, !.args = args,
                             !.handled = TRUE, !.ok = svc.ok,
                             !.error = svc.error, !.body = svc.body],
     users |-> svc.users, tokens |-> svc.tokens]

----------------------------------------------------------------------------
(* The state machine *)

\* The tokens a caller can present.
AccessInputs == {p.accessToken : p \in issued}
RefreshInputs == {p.refreshToken : p \in issued}
TokenInputs == AccessInputs \cup RefreshInputs \cup {ForgedToken, MalformedToken}

\* The headers of a request: no token, or a token in one of the two headers.
HeaderInputs ==
    {[xAccessToken |-> t, authorization |-> Absent] :
        t \in AccessInputs \cup {ForgedToken, MalformedToken}}
        \cup {[xAccessToken |-> Absent, authorization |-> t] :
                t \in AccessInputs \cup RefreshInputs}
        \cup {NoHeaders}

\* The token fields of a request body.
BodyAccessInputs == AccessInputs \cup {Absent}
BodyRefreshInputs == RefreshInputs \cup {ForgedToken}

Patches ==
    {[email |-> e, role |-> r, firstname |-> n[1], lastname |-> n[2]] :
        e \in Emails, r \in Roles, n \in NamePairs}

\* The refreshToken calls that can be in progress at once, and a slot that
\* holds none: pc is the statement the call is at, token the decoded claims
\* and user the document findById gave it.
Slots == {1, 2}

Idle ==
    [pc |-> "idle", arg |-> Absent, token |-> NoClaims, user |-> Null,
     ok |-> FALSE, error |-> "", body |-> Undefined, overlapped |-> FALSE]

Init ==
    /\ users = {}
    /\ tokens = <<>>
    /\ nextId = 1
    /\ now = 0
    /\ clockSteps = 0
    /\ issued = {}
    /\ served = 0
    /\ resp = NoResp
    /\ createFails = FALSE
    /\ inflight = [c \in Slots |-> Idle]

\* The effect of one request or call on the state.
Ready == resp = NoResp /\ served < MaxRequests

Commit(out) ==
    /\ served' = served + 1
    /\ Len(out.tokens) <= MaxTokens
    /\ users' = out.users
    /\ tokens' = out.tokens
    /\ resp' = out.resp
    /\ nextId' = IF \E u \in out.users : u.id = nextId THEN nextId + 1 ELSE nextId
    /\ issued' = IF Len(out.tokens) > Len(tokens)
                 THEN issued \cup {[accessToken |-> out.tokens[Len(out.tokens)].accessToken,
                                    refreshToken |-> out.tokens[Len(out.tokens)].refreshToken,
                                    by |-> out.resp.fn]}
                 ELSE issued
    /\ UNCHANGED <<now, clockSteps, createFails, inflight>>

Serve(fn, args, svc) ==
    \E headers \in (IF Gate[fn] = "open" THEN {NoHeaders} ELSE HeaderInputs) :
        Commit(Request(fn, headers, args, svc))

Route_login ==
    /\ Ready
    /\ \E email \in Emails, password \in Passwords :
            Serve("login", [email |-> email, password |-> password],
                  login(email, password))

Route_logout ==
    /\ Ready
    /\ \E r \in BodyRefreshInputs :
            Serve("logout", [refreshToken |-> r], logout(r))

Route_register ==
    /\ Ready
    /\ nextId <= MaxUsers
    /\ \E email \in Emails, password \in Passwords, role \in Roles, n \in NamePairs :
        Serve("register",
              [email |-> email, password |-> password, role |-> role,
               firstname |-> n[1], lastname |-> n[2]],
              register(email, password, role, n[1], n[2]))

Route_refreshtoken ==
    /\ Ready
    /\ \E r \in BodyRefreshInputs :
            Serve("refreshToken", [refreshToken |-> r], refreshToken(r))

Route_validateRole ==
    /\ Ready
    /\ \E t \in BodyAccessInputs, role \in Roles :
            Serve("validateRole", [token |-> t, role |-> role], validateRole(t, role))

Route_updatePassword ==
    /\ Ready
    /\ \E t \in BodyAccessInputs, password \in Passwords :
            Serve("updatePassword", [token |-> t, password |-> password],
                  updatePassword(t, password))

Route_verify_token ==
    /\ Ready
    /\ \E t \in BodyAccessInputs \cup RefreshInputs :
            Serve("verifyToken", [token |-> t], verifyToken(t))

Route_verify_refreshToken ==
    /\ Ready
    /\ \E t \in BodyRefreshInputs \cup AccessInputs :
            Serve("verifyRefreshToken", [refreshToken |-> t], verifyRefreshToken(t))

Route_verify_user ==
    /\ Ready
    /\ \E t \in BodyAccessInputs :
            Serve("verifyUser", [token |-> t], verifyUser(t))

Route_updateUser ==
    /\ Ready
    /\ \E t \in BodyAccessInputs, patch \in Patches :
            Serve("updateUser", [token |-> t, user |-> patch], updateUser(t, patch))

Route_deleteUser ==
    /\ Ready
    /\ \E t \in BodyAccessInputs :
            Serve("deleteUser", [token |-> t], deleteUser(t))

Call_login ==
    /\ Ready
    /\ \E email \in Emails, password \in Passwords :
            Commit(Call("login", [email |-> email, password |-> password],
                        login(email, password)))

Call_logout ==
    /\ Ready
    /\ \E r \in TokenInputs :
            Commit(Call("logout", [refreshToken |-> r], logout(r)))

Call_register ==
    /\ Ready
    /\ nextId <= MaxUsers
    /\ \E email \in Emails, password \in Passwords, role \in Roles, n \in NamePairs :
        Commit(Call("register",
                    [email |-> email, password |-> password, role |-> role,
                     firstname |-> n[1], lastname |-> n[2]],
                    register(email, password, role, n[1], n[2])))

Call_refreshToken ==
    /\ Ready
    /\ \E r \in TokenInputs :
            Commit(Call("refreshToken", [refreshToken |-> r], refreshToken(r)))

Call_verifyToken ==
    /\ Ready
    /\ \E t \in TokenInputs :
            Commit(Call("verifyToken", [token |-> t], verifyToken(t)))

Call_verifyRefreshToken ==
    /\ Ready
    /\ \E t \in TokenInputs :
            Commit(Call("verifyRefreshToken", [refreshToken |-> t], verifyRefreshToken(t)))

Call_verifyUser ==
    /\ Ready
    /\ \E t \in TokenInputs :
            Commit(Call("verifyUser", [token |-> t], verifyUser(t)))

Call_validateRole ==
    /\ Ready
    /\ \E t \in TokenInputs, role \in Roles :
            Commit(Call("validateRole", [token |-> t, role |-> role],
                        validateRole(t, role)))

Call_updatePassword ==
    /\ Ready
    /\ \E t \in TokenInputs, password \in Passwords :
            Commit(Call("updatePassword", [token |-> t, password |-> password],
                        updatePassword(t, password)))

Call_updateUser ==
    /\ Ready
    /\ \E t \in TokenInputs, patch \in Patches :
            Commit(Call("updateUser", [token |-> t, user |-> patch],
                        updateUser(t, patch)))

Call_deleteUser ==
    /\ Ready
    /\ \E t \in TokenInputs :
            Commit(Call("deleteUser", [token |-> t], deleteUser(t)))

\* The clock advances between requests.
Tick ==
    /\ resp = NoResp
    /\ clockSteps < MaxClockSteps
    /\ \E d \in ClockDeltas : now + d <= MaxNow /\ now' = now + d
    /\ clockSteps' = clockSteps + 1
    /\ UNCHANGED <<users, tokens, nextId, issued, served, resp, createFails, inflight>>

\* The TTL index on refreshTokenExpiresAt (expireAfterSeconds: 0): a pass of
\* the database's TTL monitor removes the token documents whose
\* refreshTokenExpiresAt has been reached.
Expired(d) == d.refreshTokenExpiresAt <= now

TTLMonitor ==
    /\ resp = NoResp
    /\ \E i \in 1..Len(tokens) : Expired(tokens[i])
    /\ tokens' = SelectSeq(tokens, LAMBDA d : ~Expired(d))
    /\ UNCHANGED <<users, nextId, now, clockSteps, issued, served, resp,
                   createFails, inflight>>

\* The response leaves the server; the next request is taken after it.
Deliver ==
    /\ resp # NoResp
    /\ resp' = NoResp
    /\ UNCHANGED <<users, tokens, nextId, now, clockSteps, issued, served,
                   createFails, inflight>>

Next ==
    \/ Route_login
    \/ Route_logout
    \/ Route_register
    \/ Route_refreshtoken
    \/ Route_validateRole
    \/ Route_updatePassword
    \/ Route_verify_token
    \/ Route_verify_refreshToken
    \/ Route_verify_user
    \/ Route_updateUser
    \/ Route_deleteUser
    \/ Call_login
    \/ Call_logout
    \/ Call_register
    \/ Call_refreshToken
    \/ Call_verifyToken
    \/ Call_verifyRefreshToken
    \/ Call_verifyUser
    \/ Call_validateRole
    \/ Call_updatePassword
    \/ Call_updateUser
    \/ Call_deleteUser
    \/ Tick
    \/ TTLMonitor
    \/ Deliver

Spec == Init /\ [][Next]_vars

\* The database starts or stops rejecting TokenModel.create.
StoreFault ==
    /\ resp = NoResp
    /\ createFails' = ~createFails
    /\ UNCHANGED <<users, tokens, nextId, now, clockSteps, issued, served, resp,
                   inflight>>

\* The operations that issue credentials, with a database that can reject
\* the creation of the token document.
NextFault ==
    \/ Route_login
    \/ Route_register
    \/ Route_refreshtoken
    \/ Call_login
    \/ Call_register
    \/ Call_refreshToken
    \/ Tick
    \/ TTLMonitor
    \/ Deliver
    \/ StoreFault

SpecFault == Init /\ [][NextFault]_vars

\* refreshToken statement by statement: between two awaits of one call the
\* event loop can run the statements of another. A statement runs once the
\* response in flight has left.
Running(call) == call.pc \notin {"idle", "done"}

Resume(c, call) == inflight' = [inflight EXCEPT ![c] = call]

\* Slot c takes a call refreshToken(r).
RefreshArrive ==
    \E c \in Slots, r \in RefreshInputs :
        /\ resp = NoResp
        /\ inflight[c].pc = "idle"
        /\ inflight' =
              [d \in Slots |->
                  IF d = c
                  THEN [Idle EXCEPT !.pc = "verify", !.arg = r,
                                    !.overlapped =
                                        \E e \in Slots \ {c} : Running(inflight[e])]
                  ELSE [inflight[d] EXCEPT
                            !.overlapped = @ \/ Running(inflight[d])]]
        /\ UNCHANGED <<users, tokens, nextId, now, clockSteps, issued, served, resp,
                       createFails>>

\* const token = await jwt.verify(refreshToken, REFRESH_TOKEN_SECRET)
RefreshVerify ==
    \E c \in Slots :
        /\ resp = NoResp
        /\ inflight[c].pc = "verify"
        /\ LET token == jwtVerify(inflight[c].arg, REFRESH_TOKEN_SECRET)
           IN  Resume(c, IF token.ok
                         THEN [inflight[c] EXCEPT !.pc = "deleteMany",
                                                  !.token = token.decoded]
                         ELSE [inflight[c] EXCEPT !.pc = "done",
                                                  !.error = token.error])
        /\ UNCHANGED <<users, tokens, nextId, now, clockSteps, issued, served, resp,
                       createFails>>

\* TokenModel.deleteMany({refreshToken: refreshToken})
RefreshDeleteMany ==
    \E c \in Slots :
        /\ resp = NoResp
        /\ inflight[c].pc = "deleteMany"
        /\ tokens' = deleteManyUnexecuted(inflight[c].arg)
        /\ Resume(c, [inflight[c] EXCEPT !.pc = "findById"])
        /\ UNCHANGED <<users, nextId, now, clockSteps, issued, served, resp,
                       createFails>>

\* const user = await UserModel.findById(token.id)
RefreshFindById ==
    \E c \in Slots :
        /\ resp = NoResp
        /\ inflight[c].pc = "findById"
        /\ Resume(c, [inflight[c] EXCEPT !.pc = "generateCredentials",
                                         !.user = FindById(inflight[c].token.id)])
        /\ UNCHANGED <<users, tokens, nextId, now, clockSteps, issued, served, resp,
                       createFails>>

\* return this.generateCredentials(user)
RefreshGenerateCredentials ==
    \E c \in Slots :
        /\ resp = NoResp
        /\ inflight[c].pc = "generateCredentials"
        /\ LET out == generateCredentials(inflight[c].user, users, tokens)
           IN  /\ Len(out.tokens) <= MaxTokens
               /\ users' = out.users
               /\ tokens' = out.tokens
               /\ issued' = IF out.ok
                            THEN issued \cup {[accessToken |-> out.body.accessToken,
                                               refreshToken |-> out.body.refreshToken,
                                               by |-> "refreshToken"]}
                            ELSE issued
               /\ Resume(c, [inflight[c] EXCEPT !.pc = "done", !.ok = out.ok,
                                                !.error = out.error,
                                                !.body = out.body])
        /\ UNCHANGED <<nextId, now, clockSteps, served, resp, createFails>>

NextRace ==
    \/ Call_register
    \/ Tick
    \/ Deliver
    \/ RefreshArrive
    \/ RefreshVerify
    \/ RefreshDeleteMany
    \/ RefreshFindById
    \/ RefreshGenerateCredentials

SpecRace == Init /\ [][NextRace]_vars

----------------------------------------------------------------------------
(* Vocabulary of the properties *)

\* The error class InvalidToken: no such token document, or a token that
\* fails verification (missing, malformed, wrong signature, expired).
InvalidToken ==
    {"Invalid token", "jwt must be provided", "jwt malformed",
     "invalid signature", "jwt expired"}

\* token carries a signature made with secret and its expiry lies ahead.
ValidFor(token, secret) ==
    token.signedWith = secret /\ Seconds(now) < token.exp

Claims(token) == [id |-> token.id, iat |-> token.iat, exp |-> token.exp]

\* The token documents stored under an access token / a refresh token.
DocsOfAccess(T, token) == SelectSeq(T, LAMBDA d : d.accessToken = token)
DocsOfRefresh(T, token) == SelectSeq(T, LAMBDA d : d.refreshToken = token)

\* The last step was a request or call that reached service function fn.
Reached(fn) == resp.handled /\ resp.fn = fn

\* What a caller sees of a service outcome.
Seen(out) == [ok |-> out.ok, error |-> out.error, body |-> out.body]

----------------------------------------------------------------------------
(* C1 *)

\* C1: refresh tokens are single-use: once refresh(r) has succeeded for a
\* refresh token r that a login returned, a further refresh(r), with r still
\* valid and the user still there, fails with InvalidToken and issues no new
\* pair.
C1_RefreshSingleUse ==
    (/\ Reached("refreshToken") /\ resp.ok
     /\ \E p \in issued : p.by = "login" /\ p.refreshToken = resp.args.refreshToken)
    => LET r == resp.args.refreshToken
           again == refreshToken(r)
       IN  (ValidFor(r, REFRESH_TOKEN_SECRET) /\ FindById(r.id) # Null)
           => (~again.ok /\ again.error \in InvalidToken /\ again.tokens = tokens)

(* C2 *)

\* C2: a successful refresh(r) removes every token document whose refresh
\* token is r before it creates the new one: the collection it leaves is the
\* earlier documents without those of r, followed by the one new document.
C2_RotationRemovesOld ==
    [][(resp = NoResp /\ resp'.handled /\ resp'.fn = "refreshToken" /\ resp'.ok)
       => LET r == resp'.args.refreshToken
          IN  /\ Len(tokens') >= 1
              /\ SubSeq(tokens', 1, Len(tokens') - 1)
                     = SelectSeq(tokens, LAMBDA d : d.refreshToken # r)]_vars

(* C3 *)

\* C3: logout(r) revokes the session: once logout(r) has answered, with
\* nothing left for the service to do, no token document has refresh token
\* r, and verifyUser, validateRole and updatePassword with the access token
\* paired with r fail with InvalidToken.
C3_LogoutRevokes ==
    Reached("logout")
    => LET r == resp.args.refreshToken
       IN  /\ Len(DocsOfRefresh(tokens, r)) = 0
           /\ \A p \in issued : p.refreshToken = r
                => /\ verifyUser(p.accessToken).error \in InvalidToken
                   /\ \A role \in Roles :
                        validateRole(p.accessToken, role).error \in InvalidToken
                   /\ \A pw \in Passwords :
                        updatePassword(p.accessToken, pw).error \in InvalidToken

(* C4 *)

\* C4: every login of a registered user with its password succeeds and adds
\* exactly one token document, leaving the earlier ones in place and
\* resolvable by verifyUser; the pair it returns differs in both tokens from
\* the pair of every earlier login of the same user.
C4_LoginsAreDistinctSessions ==
    [][(resp = NoResp /\ resp'.handled /\ resp'.fn = "login")
       => LET user == FindByEmail(resp'.args.email)
          IN  /\ (user # Null /\ bcryptCompare(resp'.args.password, user.password))
                    => resp'.ok
              /\ resp'.ok
                    => /\ Len(tokens') = Len(tokens) + 1
                       /\ SubSeq(tokens', 1, Len(tokens)) = tokens
                       /\ \A i \in 1..Len(tokens) :
                            (verifyUser(tokens[i].accessToken).ok)'
                       /\ \A p \in issued :
                            (p.by = "login" /\ p.accessToken.id = user.id)
                            => /\ p.accessToken # resp'.body.accessToken
                               /\ p.refreshToken # resp'.body.refreshToken]_vars

(* C5 *)

\* C5: on every route behind isAuthenticated, a request without a token in
\* x-access-token or authorization is answered 401 and a request whose token
\* is not an unexpired token signed with the access-token secret is answered
\* 400, in both cases without the handler running and without a change to
\* either collection; the handler runs only for a verified token, with the
\* token's decoded claims attached to the request.
C5_AuthenticationGate ==
    [][(resp = NoResp /\ resp'.layer = "http" /\ resp'.fn \in AuthRoutes)
       => LET token == IF resp'.headers.xAccessToken # Absent
                       THEN resp'.headers.xAccessToken
                       ELSE resp'.headers.authorization
              verified == token # Absent /\ ValidFor(token, ACCESS_TOKEN_SECRET)
          IN  /\ token = Absent
                    => /\ resp'.status = 401 /\ ~resp'.handled
                       /\ users' = users /\ tokens' = tokens
              /\ (token # Absent /\ ~verified)
                    => /\ resp'.status = 400 /\ ~resp'.handled
                       /\ users' = users /\ tokens' = tokens
              /\ resp'.handled
                    => verified /\ resp'.identity = Claims(token)]_vars

\* C5 witness: a request with a token in the authorization header alone
\* passed the gate and reached its handler.
C5_Witness ==
    /\ resp.layer = "http" /\ resp.fn \in AuthRoutes /\ resp.handled
    /\ resp.headers.xAccessToken = Absent
    /\ resp.identity.id # 0

(* C6 *)

\* C6: on the admin-gated routes a request with a valid access token that
\* the service issued to a user whose role was "admin" at issuance reaches
\* the handler, and one issued to a user with another role is answered 403
\* without reaching the handler.
C6_RoleGate ==
    (/\ resp.layer = "http" /\ resp.fn \in AdminRoutes
     /\ ValidFor(HeaderToken(resp.headers), ACCESS_TOKEN_SECRET))
    => \A i \in 1..Len(tokens) :
          tokens[i].accessToken = HeaderToken(resp.headers)
          => IF tokens[i].user.role = "admin"
             THEN resp.handled
             ELSE resp.status = 403 /\ ~resp.handled

(* C7 *)

\* C7: verifyToken returns the decoded claims exactly for the unexpired
\* tokens signed with the access-token secret and fails with InvalidToken
\* for every other token (another secret, a refresh token of this service,
\* an expired token); verifyRefreshToken does the same with the
\* refresh-token secret.
C7_VerifyBySecretAndExpiry ==
    /\ Reached("verifyToken")
        => IF ValidFor(resp.args.token, ACCESS_TOKEN_SECRET)
           THEN resp.ok /\ resp.body = Claims(resp.args.token)
           ELSE ~resp.ok /\ resp.error \in InvalidToken
    /\ Reached("verifyRefreshToken")
        => IF ValidFor(resp.args.refreshToken, REFRESH_TOKEN_SECRET)
           THEN resp.ok /\ resp.body = Claims(resp.args.refreshToken)
           ELSE ~resp.ok /\ resp.error \in InvalidToken

\* C7 witness: verifyToken refused a refresh token that this service issued
\* and that has not expired.
C7_Witness ==
    /\ Reached("verifyToken") /\ ~resp.ok
    /\ resp.args.token \in RefreshInputs
    /\ ValidFor(resp.args.token, REFRESH_TOKEN_SECRET)

(* C8 *)

\* C8: once updatePassword(token, newPassword) has succeeded, login with the
\* owner's email succeeds with newPassword and fails with InvalidCredentials
\* ("Invalid password") with every other password.
C8_PasswordChangeTakesEffect ==
    (Reached("updatePassword") /\ resp.ok)
    => LET owner == FindById(Head(DocsOfAccess(tokens, resp.args.token)).user.id)
       IN  \A pw \in Passwords :
              LET again == login(owner.email, pw)
              IN  IF pw = resp.args.password
                  THEN again.ok
                  ELSE ~again.ok /\ again.error = "Invalid password"

\* C8 witness: updatePassword succeeded with a password other than the one
\* its token was issued under.
C8_Witness ==
    /\ Reached("updatePassword") /\ resp.ok
    /\ \E i \in 1..Len(tokens) :
          /\ tokens[i].accessToken = resp.args.token
          /\ ~bcryptCompare(resp.args.password, tokens[i].user.password)

(* C9 *)

\* C9: validateRole(token, role) fails with "Invalid token" when no token
\* document has that access token; otherwise it returns the user stored in
\* the document when that user's role (the role at issuance) equals role and
\* fails with "Invalid role" when it does not; and an updateUser leaves the
\* outcome of validateRole for every token and role as it was.
C9_ValidateRoleUsesStoredRole ==
    [][(resp = NoResp /\ resp'.handled)
       => /\ resp'.fn = "validateRole"
             => LET docs == DocsOfAccess(tokens', resp'.args.token)
                IN  IF Len(docs) = 0
                    THEN ~resp'.ok /\ resp'.error = "Invalid token"
                    ELSE IF Head(docs).user.role = resp'.args.role
                    THEN resp'.ok /\ resp'.body = Head(docs).user
                    ELSE ~resp'.ok /\ resp'.error = "Invalid role"
          /\ (resp'.fn = "updateUser" /\ resp'.ok)
             => \A t \in TokenInputs, role \in Roles :
                   Seen(validateRole(t, role))' = Seen(validateRole(t, role))]_vars

\* C9 witness: validateRole returned the user for the role stored in the
\* token document although the user's role has been changed since.
C9_Witness ==
    /\ Reached("validateRole") /\ resp.ok
    /\ FindById(resp.body.id) # Null
    /\ FindById(resp.body.id).role # resp.args.role

(* C10 *)

\* C10: verifyUser(t) succeeds exactly when the token collection holds a
\* document with access token t, whether or not t is signature-valid or
\* unexpired, and fails with "Invalid token" otherwise.
C10_StorePresenceDecides ==
    Reached("verifyUser")
    => IF Len(DocsOfAccess(tokens, resp.args.token)) > 0
       THEN resp.ok /\ resp.body = Head(DocsOfAccess(tokens, resp.args.token)).user
       ELSE ~resp.ok /\ resp.error = "Invalid token"

\* C10 witness: verifyUser resolved an access token that has expired but
\* whose document is still stored.
C10_Witness ==
    /\ Reached("verifyUser") /\ resp.ok
    /\ ~ValidFor(resp.args.token, ACCESS_TOKEN_SECRET)

----------------------------------------------------------------------------
(* Further vocabulary *)

\* The error class UserNotFound.
UserNotFound == {"User not found"}

\* What service function fn does with the arguments args of a request.
ServiceOutcome(fn, args) ==
    CASE fn = "login" -> login(args.email, args.password)
      [] fn = "logout" -> logout(args.refreshToken)
      [] fn = "register" ->
            register(args.email, args.password, args.role,
                     args.firstname, args.lastname)
      [] fn = "refreshToken" -> refreshToken(args.refreshToken)
      [] fn = "verifyToken" -> verifyToken(args.token)
      [] fn = "verifyRefreshToken" -> verifyRefreshToken(args.refreshToken)
      [] fn = "verifyUser" -> verifyUser(args.token)
      [] fn = "validateRole" -> validateRole(args.token, args.role)
      [] fn = "updatePassword" -> updatePassword(args.token, args.password)
      [] fn = "updateUser" -> updateUser(args.token, args.user)
      [] fn = "deleteUser" -> deleteUser(args.token)

(* C11 *)

\* C11: the user that POST /verify/user returns and the user that
\* DELETE /deleteUser removes is the owner of the bearer token the
\* middleware authenticated, whatever the request body contains.
C11_IdentityBinding ==
    [][(resp = NoResp /\ resp'.layer = "http" /\ resp'.handled)
       => /\ resp'.fn = "verifyUser"
             => resp'.ok /\ resp'.body.id = resp'.identity.id
          /\ resp'.fn = "deleteUser"
             => /\ resp'.ok
                /\ users' = {u \in users : u.id # resp'.identity.id}]_vars

(* C12 *)

\* C12: every request gets one response; a request that reaches its
\* controller is answered 200 when the service function returns and 500 with
\* the error's message when it throws, whatever the error; 400, 401 and 403
\* come from the middleware alone.
C12_ResponseMapping ==
    [][(resp = NoResp /\ resp'.layer = "http")
       => IF resp'.handled
          THEN LET svc == ServiceOutcome(resp'.fn, resp'.args)
               IN  IF svc.ok
                   THEN resp'.status = 200 /\ resp'.ok
                   ELSE /\ resp'.status = 500 /\ ~resp'.ok
                        /\ resp'.error = svc.error
          ELSE resp'.status \in {400, 401, 403}]_vars

\* C12 witness: a request reached its controller and was answered 500 with
\* the message of a token error.
C12_Witness ==
    /\ resp.layer = "http" /\ resp.handled
    /\ resp.status = 500 /\ resp.error = "Invalid token"

(* C13 *)

\* C13: once deleteUser(token) has succeeded the user document is gone, the
\* user's token documents are still stored, and verifyUser, validateRole,
\* updatePassword and updateUser with the access token of any of those
\* documents fail with UserNotFound, returning and changing nothing.
C13_NoDanglingUser ==
    (Reached("deleteUser") /\ resp.ok)
    => LET id == Head(DocsOfAccess(tokens, resp.args.token)).user.id
       IN  /\ FindById(id) = Null
           /\ \A i \in 1..Len(tokens) :
                tokens[i].user.id = id
                => LET t == tokens[i].accessToken
                   IN  /\ verifyUser(t).error \in UserNotFound
                       /\ \A role \in Roles :
                            validateRole(t, role).error \in UserNotFound
                       /\ \A pw \in Passwords :
                            /\ updatePassword(t, pw).error \in UserNotFound
                            /\ updatePassword(t, pw).users = users
                       /\ \A patch \in Patches :
                            /\ updateUser(t, patch).error \in UserNotFound
                            /\ updateUser(t, patch).users = users

(* C14 *)

\* C14: refresh(r) with a valid, unexpired refresh token r whose subject is
\* no user any more fails with UserNotFound and creates no token document.
C14_RefreshForDeletedUser ==
    [][(/\ resp = NoResp /\ resp'.handled /\ resp'.fn = "refreshToken"
        /\ ValidFor(resp'.args.refreshToken, REFRESH_TOKEN_SECRET)
        /\ FindById(resp'.args.refreshToken.id) = Null)
       => /\ ~resp'.ok /\ resp'.error \in UserNotFound
          /\ tokens' = tokens]_vars

(* C15 *)

\* C15: login fails with "User not found" when no user has the email and
\* with "Invalid password" when the password does not match the stored
\* hash, in both cases leaving both collections as they were; login creates
\* a token document only after both checks passed.
C15_FailedLoginHasNoEffect ==
    [][(resp = NoResp /\ resp'.handled /\ resp'.fn = "login")
       => LET user == FindByEmail(resp'.args.email)
              matches == user # Null
                         /\ bcryptCompare(resp'.args.password, user.password)
          IN  /\ user = Null
                    => /\ ~resp'.ok /\ resp'.error = "User not found"
                       /\ users' = users /\ tokens' = tokens
              /\ (user # Null /\ ~matches)
                    => /\ ~resp'.ok /\ resp'.error = "Invalid password"
                       /\ users' = users /\ tokens' = tokens
              /\ tokens' # tokens => matches]_vars

\* C15 witness: a login of a registered user with a wrong password failed.
C15_Witness ==
    /\ Reached("login") /\ ~resp.ok /\ resp.error = "Invalid password"
    /\ FindByEmail(resp.args.email) # Null

(* C17 *)

\* C17: a successful updatePassword changes the password of the owning user
\* and nothing else: the token collection is as it was, every token issued
\* before resolves and refreshes as it did, and the user's email, role,
\* firstname and lastname are unchanged.
C17_UpdatePasswordKeepsSessions ==
    [][(/\ resp = NoResp /\ resp'.handled
        /\ resp'.fn = "updatePassword" /\ resp'.ok)
       => LET old == FindById(Head(DocsOfAccess(tokens, resp'.args.token)).user.id)
          IN  /\ tokens' = tokens
              /\ \E new \in users' :
                    /\ new = [old EXCEPT !.password = new.password]
                    /\ users' \ {new} = users \ {old}
              /\ \A p \in issued :
                    /\ Seen(verifyUser(p.accessToken))'
                         = Seen(verifyUser(p.accessToken))
                    /\ (refreshToken(p.refreshToken).ok)'
                         = refreshToken(p.refreshToken).ok]_vars

\* C17 witness: updatePassword succeeded for a user that has two sessions.
C17_Witness ==
    /\ Reached("updatePassword") /\ resp.ok
    /\ \E i, j \in 1..Len(tokens) :
          /\ i # j
          /\ tokens[i].accessToken = resp.args.token
          /\ tokens[j].user.id = tokens[i].user.id

(* C19 *)

\* C19: no response body of login, register, refresh, verify/user,
\* validateRole, verify/token or verify/refreshToken holds the stored
\* password hash; a user in a response carries id, email and name only.
C19_HashNeverDisclosed ==
    (/\ resp.handled /\ resp.ok
     /\ resp.fn \in {"login", "register", "refreshToken", "verifyUser",
                     "validateRole", "verifyToken", "verifyRefreshToken"})
    => /\ "password" \notin DOMAIN resp.body
       /\ "user" \in DOMAIN resp.body
             => DOMAIN resp.body.user = {"id", "email", "name"}
       /\ resp.fn \in {"verifyUser", "validateRole"}
             => DOMAIN resp.body = {"id", "email", "name"}

(* C20 *)

\* C20: every token document has accessTokenExpiresAt before
\* refreshTokenExpiresAt, and neither stored expiry is earlier than the
\* expiry signed into the corresponding token; so the TTL monitor never
\* removes a document whose refresh token would still pass
\* verifyRefreshToken.
C20_ExpiryConsistency ==
    [][/\ \A i \in 1..Len(tokens') :
            LET d == tokens'[i]
            IN  /\ d.accessTokenExpiresAt < d.refreshTokenExpiresAt
                /\ d.refreshTokenExpiresAt >= d.refreshToken.exp * 1000
                /\ d.accessTokenExpiresAt >= d.accessToken.exp * 1000
       /\ Len(tokens') < Len(tokens)
            => \A i \in 1..Len(tokens) :
                  (\A j \in 1..Len(tokens') : tokens'[j] # tokens[i])
                  => /\ now' = now
                     /\ ~ValidFor(tokens[i].refreshToken, REFRESH_TOKEN_SECRET)]_vars

\* C20 witness: the TTL monitor has removed the document of an issued pair
\* and another document, created off a whole second, is stored.
C20_Witness ==
    /\ \E p \in issued :
          \A i \in 1..Len(tokens) : tokens[i].accessToken # p.accessToken
    /\ \E i \in 1..Len(tokens) :
          tokens[i].refreshTokenExpiresAt > tokens[i].refreshToken.exp * 1000

(* C16 *)

\* C16: when the creation of the token document fails, login, register and
\* refresh fail, return no tokens, and leave the user collection and the
\* token collection as they were before the operation started.
C16_IssueAtomicity ==
    [][(/\ resp = NoResp /\ resp'.handled
        /\ resp'.fn \in {"login", "register", "refreshToken"}
        /\ createFails)
       => /\ ~resp'.ok
          /\ resp'.body = Undefined
          /\ users' = users
          /\ tokens' = tokens]_vars

(* C18 *)

\* C18: of two refreshToken calls that present the same refresh token and
\* are in progress at the same time, at most one returns a new token pair
\* and at most one creates a token document.
C18_NoConcurrentReplay ==
    \A c, d \in Slots :
        (/\ c # d
         /\ inflight[c].pc = "done" /\ inflight[d].pc = "done"
         /\ inflight[c].overlapped /\ inflight[d].overlapped
         /\ inflight[c].arg = inflight[d].arg)
        => ~(inflight[c].ok /\ inflight[d].ok)

====
